---- MODULE Spec2Model ----
(***************************************************************************)
(* A model of the streaming clients of hypercore-grpc-examples:            *)
(*   - the orderbook clients (JavaScript and Go, L2 and L4) with their     *)
(*     DATA_LOSS reconnect loop                                            *)
(*       javascript/orderbookStreamExample/orderbook_stream_example.js     *)
(*       golang/orderbookStreamExample/orderbook_stream_example.go         *)
(*   - the JavaScript StreamData clients with their asynchronous 'data'    *)
(*     handlers                                                            *)
(*       javascript/grpcRawDataExample/index.js  (streamData)              *)
(*       javascript/grpcFilterExample/filter_example.js (streamWithFilter) *)
(*   - decompress(), in JavaScript and in Go                               *)
(*   - the Go StreamData clients (streamData, streamWithFilter)            *)
(*   - the S3 backfill functions, in JavaScript and in Go: streamBlocks,   *)
(*     findBlockFile with listS3, and parseBlockRange                      *)
(*       javascript/replicaCmdsOnS3Example/s3_blocks_backfill.js           *)
(*       golang/replicaCmdsOnS3Example/s3_blocks_backfill.go               *)
(* Each program is a specification of its own over its own variables; the  *)
(* variables of the other programs stay at their idle values.              *)
(* Durations are in milliseconds (Go's 2 * time.Second is 2000).           *)
(***************************************************************************)
EXTENDS Integers, Sequences, FiniteSets, TLC

VARIABLES
    \* ---- orderbook client: parameters of the run
    lang,             \* "js" | "go": which implementation runs
    mode,             \* "l2" | "l4": streamL2Orderbook | streamL4Orderbook
    autoReconnect,    \* JS parameter autoReconnect; the Go client always reconnects
    maxMessages,      \* L4 parameter maxMessages; 0 is JS null / Go 0 (unlimited)
    \* ---- orderbook client: program state
    pc,               \* "start" | "loop" | "dialed" | "streaming" | "backoff" | "done"
    retryCount,       \* retryCount
    msgCount,         \* L2: msgCount of the current connection
    totalMsgCount,    \* L4: totalMsgCount
    snapshotReceived, \* L4: snapshotReceived of the current connection
    shouldRetry,      \* Go: shouldRetry of the current loop iteration
    connOpen,         \* Go: the grpc.ClientConn of the iteration is open (not Closed)
    cancelled,        \* JS L4: call.cancel() was called on the current call
    delay,            \* the delay of the backoff being waited (setTimeout / time.Sleep)
    request,          \* the request message of the latest stream request
    outcome,          \* how the function ended ("running" while it has not)
    retval,           \* Go: the returned error ("nil" | "error"); "none" before return
    \* ---- orderbook client: history of the run (observations, not program state)
    opened,           \* number of stream requests issued so far
    failures,         \* number of DATA_LOSS failures so far
    failRun,          \* DATA_LOSS failures in a row since the last data message
    resetRun,         \* DATA_LOSS failures in a row since the last counter-resetting message
    runStreams,       \* streams used by the current run of failures (the current one included)
    lastTerminal,     \* terminal event of the latest stream: "none" | "end" | a status code
    lastBlock,        \* block number of the last processed data unit (0: none yet)
    cursorAtOpen,     \* lastBlock when the latest stream request was issued
    retryAtReconnect, \* retryCount held during the latest backoff, just before the reconnect
    dataSinceOpen,    \* a data message was processed on the latest stream
    cancelRequested,  \* the caller asked, during a backoff wait, that the session stop
    resetMin,         \* lowest position the upstream still had at the latest DATA_LOSS,
                      \* 0 once a data message was processed since
    \* ---- StreamData client (JavaScript)
    sd_client,        \* "raw" (index.js streamData) | "filter" (streamWithFilter)
    sd_pc,            \* "init" | "streaming" | "ended" | "errored" | "crashed"
    sd_written,       \* the messages written to the call, in order
    sd_received,      \* the data messages received, in order: [block, enc]
    sd_microq,        \* 'data' handlers resumed by the microtask queue, FIFO
    sd_zstd,          \* 'data' handlers awaiting zstd.decompress (thread pool)
    sd_printed,       \* the lines printed, in order: [line, block]
    \* ---- StreamData client (Go)
    gs_client,        \* "raw" (streamData) | "filter" (streamWithFilter)
    gs_pc,            \* "init" | "dialed" | "streaming" | "done"
    gs_connOpen,      \* the grpc.ClientConn is open (not Closed)
    gs_ctxDone,       \* raw: main's cancel() was called (SIGINT / SIGTERM)
    gs_pinger,        \* the keep-alive goroutine: "none" | "running" (waiting in
                      \* its select / range) | "tick" (a tick is buffered in
                      \* ticker.C, not yet taken) | "stopped"
    gs_sent,          \* the messages sent on the stream, in order
    gs_received,      \* the data messages received, in order: [block, enc, json]
    gs_pongs,         \* the number of pongs received
    gs_printed,       \* the lines printed and logged, in order: [line, block]
    gs_retval,        \* the returned error ("nil" | "error"); "none" before return
    \* ---- decompress
    dc_payload,       \* the payload: a sequence of bytes
    dc_lib,           \* what the zstd library makes of the payload
    dc_js,            \* the result of the JavaScript decompress
    dc_go,            \* the result of the Go decompress
    \* ---- streamBlocks (S3 backfill)
    sb_lang,          \* "js" | "go": which implementation runs
    sb_pc,            \* "get" | "reading" | "done" | "failed"
    sb_start,         \* blockRange.startBlock
    sb_file,          \* the lines of the object, as the line reader delivers them
    sb_pos,           \* the number of lines read so far
    sb_lineNumber,    \* lineNumber
    sb_yielded,       \* the records yielded, in order: [blockNumber, line, data]
    \* ---- findBlockFile (S3 backfill)
    fb_lang,          \* "js" | "go": which implementation runs
    fb_pc,            \* "checkpoints" | "dates" | "files" | "done"
    fb_store,         \* the bucket: per checkpoint, per date, the set of file names
    fb_target,        \* targetBlock
    fb_checkpoint,    \* checkpoint (0 before it is chosen)
    fb_dates,         \* dates: the listing of the checkpoint
    fb_di,            \* the position of the date loop in dates
    fb_result,        \* the value returned: NoResult before return, Null, or a range
    fb_err,           \* Go: the error returned ("nil" | "error"); "none" before return
    fb_failed,        \* the listing calls of the run that failed: << "checkpoints", 0 >>,
                      \* << "dates", 0 >>, << "files", d >> for date d
    \* ---- parseBlockRange / ParseBlockRange (S3 backfill)
    pk_key,           \* the key: a string, as the sequence of its characters
    pk_js,            \* the result of the JavaScript parseBlockRange
    pk_go             \* the result of the Go ParseBlockRange

obVars == << lang, mode, autoReconnect, maxMessages, pc, retryCount, msgCount,
             totalMsgCount, snapshotReceived, shouldRetry, connOpen, cancelled,
             delay, request, outcome, retval, opened, failures, failRun, resetRun,
             runStreams, lastTerminal, lastBlock, cursorAtOpen, retryAtReconnect,
             dataSinceOpen, cancelRequested, resetMin >>

sdVars == << sd_client, sd_pc, sd_written, sd_received, sd_microq, sd_zstd,
             sd_printed >>

gsVars == << gs_client, gs_pc, gs_connOpen, gs_ctxDone, gs_pinger, gs_sent,
             gs_received, gs_pongs, gs_printed, gs_retval >>

dcVars == << dc_payload, dc_lib, dc_js, dc_go >>

sbVars == << sb_lang, sb_pc, sb_start, sb_file, sb_pos, sb_lineNumber, sb_yielded >>

fbVars == << fb_lang, fb_pc, fb_store, fb_target, fb_checkpoint, fb_dates, fb_di,
             fb_result, fb_err, fb_failed >>

pkVars == << pk_key, pk_js, pk_go >>

vars == << obVars, sdVars, gsVars, dcVars, sbVars, fbVars, pkVars >>

-----------------------------------------------------------------------------
(* Bounds of the model *)

\* DATA_LOSS failures delivered in one run
MaxFailures == 12
\* data messages delivered per connection (L2) / counted by totalMsgCount (L4)
MaxMessages == 3
\* block numbers (heights) carried by data messages are 1..MaxBlock
MaxBlock == 2
\* data messages received on one StreamData call
MaxData == 3
\* keep-alive ticks of one StreamData call
MaxPings == 2
\* length of a payload handed to decompress
MaxPayloadLen == 5

-----------------------------------------------------------------------------
(* Program constants *)

\* orderbook_stream_example.js: const maxRetries = 10
js_maxRetries == 10
\* orderbook_stream_example.js: const baseDelay = 2000
js_baseDelay == 2000
\* orderbook_stream_example.go: maxRetries = 10
go_maxRetries == 10
\* orderbook_stream_example.go: baseDelay = 2 * time.Second, in milliseconds
go_baseDelay == 2000

\* gRPC status codes a stream can fail with
StatusCodes == { "DATA_LOSS", "UNAVAILABLE", "UNAUTHENTICATED", "CANCELLED" }

\* the block numbers data messages carry: the low ones and a later one
Blocks == (1..MaxBlock) \cup {100}
\* the lowest position the upstream can still serve when it resets a stream with
\* DATA_LOSS: everything, or only what is at and above a later position
UpstreamMins == {1, 150}

\* the updates a server can send on an L2 stream
L2Updates == [ kind : {"l2"}, block : Blocks ]
\* the updates a server can send on an L4 stream: the oneof is a snapshot, a diff
\* or unset
L4Updates == [ kind : {"snapshot", "diff", "empty"}, block : Blocks ]

-----------------------------------------------------------------------------
(* Pure helpers *)

\* Math.pow(2, n) / math.Pow(2, float64(n)) for a small non-negative integer n
\* (exact in floating point, as is its conversion to time.Duration)
RECURSIVE Pow2(_)
Pow2(n) == IF n <= 0 THEN 1 ELSE 2 * Pow2(n - 1)

\* the position a request asks the stream to start from; the orderbook requests
\* have no such field
NoStartPosition == -1
StartPosition(req) ==
    IF "start_block" \in DOMAIN req THEN req.start_block ELSE NoStartPosition

\* js: const request = { coin: coin, n_levels: nLevels }
JSL2Request == [ coin |-> "BTC", n_levels |-> 20 ]
\* js: const request = { coin: coin }
JSL4Request == [ coin |-> "BTC" ]
\* go: request := &pb.L2BookRequest{Coin: coin, NLevels: nLevels}
GoL2Request == [ coin |-> "BTC", n_levels |-> 20 ]
\* go: request := &pb.L4BookRequest{Coin: coin}
GoL4Request == [ coin |-> "BTC" ]

\* js: while (retryCount < maxRetries)
JSLoopGuard(rc) == rc < js_maxRetries
\* a variant of JSShouldReconnect that reconnects on any error code
JSShouldReconnect_AnyCode(code, auto) == auto
\* js: if (err.code === grpc.status.DATA_LOSS && autoReconnect)
JSShouldReconnect(code, auto) == code = "DATA_LOSS" /\ auto
\* js: retryCount++
JSCountRetry(rc) == rc + 1
\* js: if (retryCount < maxRetries) after retryCount++
JSMayRetry(rc) == rc < js_maxRetries
\* js: const delay = baseDelay * Math.pow(2, retryCount - 1)
JSBackoffDelay(rc) == js_baseDelay * Pow2(rc - 1)
\* js L2: if (msgCount === 1) retryCount = 0
JSL2Resets(mc) == mc = 1
\* js L4: if (update.snapshot) { ... retryCount = 0 }
JSL4Resets(update) == update.kind = "snapshot"
\* js L4: if (maxMessages && totalMsgCount >= maxMessages)
JSReachedMax(maxMsgs, total) == maxMsgs # 0 /\ total >= maxMsgs

\* go: for retryCount < maxRetries
GoLoopGuard(rc) == rc < go_maxRetries
\* go: if ok && st.Code() == codes.DataLoss
GoIsDataLoss(code) == code = "DATA_LOSS"
\* a variant of GoCountRetry that forgets to count the retry
GoCountRetry_Forgotten(rc) == rc
\* go: retryCount++
GoCountRetry(rc) == rc + 1
\* a variant of GoMayRetry that gives up only above maxRetries
GoMayRetry_Inclusive(rc) == rc <= go_maxRetries
\* go: if retryCount < maxRetries after retryCount++
GoMayRetry(rc) == rc < go_maxRetries
\* a variant of GoBackoffDelay that grows linearly
GoBackoffDelay_Linear(rc) == go_baseDelay * rc
\* go: delay := baseDelay * time.Duration(math.Pow(2, float64(retryCount-1)))
GoBackoffDelay(rc) == go_baseDelay * Pow2(rc - 1)
\* a variant of GoL2Resets that tests the count before the increment
GoL2Resets_BeforeCount(mc) == mc = 0
\* go L2: if msgCount == 1 { retryCount = 0 }
GoL2Resets(mc) == mc = 1
\* go L4: if snapshot := update.GetSnapshot(); snapshot != nil { ... retryCount = 0 }
GoL4Resets(update) == update.kind = "snapshot"
\* a variant of GoReachedMax that stops one message late
GoReachedMax_Late(maxMsgs, total) == maxMsgs > 0 /\ total > maxMsgs
\* go L4: if maxMessages > 0 && totalMsgCount >= maxMessages
GoReachedMax(maxMsgs, total) == maxMsgs > 0 /\ total >= maxMsgs

-----------------------------------------------------------------------------
(* The orderbook clients: initial states *)

\* the orderbook client is not run
IdleOrderbook ==
    /\ lang = "none" /\ mode = "none" /\ autoReconnect = FALSE /\ maxMessages = 0
    /\ pc = "idle" /\ retryCount = 0 /\ msgCount = 0 /\ totalMsgCount = 0
    /\ snapshotReceived = FALSE /\ shouldRetry = FALSE /\ connOpen = FALSE
    /\ cancelled = FALSE /\ delay = 0 /\ request = << >> /\ outcome = "idle"
    /\ retval = "none" /\ opened = 0 /\ failures = 0 /\ failRun = 0
    /\ resetRun = 0 /\ runStreams = 0 /\ lastTerminal = "none" /\ lastBlock = 0
    /\ cursorAtOpen = 0 /\ retryAtReconnect = 0 /\ dataSinceOpen = FALSE
    /\ cancelRequested = FALSE /\ resetMin = 0

\* the StreamData client is not run
IdleStreamData ==
    /\ sd_client = "none"
    /\ sd_pc = "idle"
    /\ sd_written = << >>
    /\ sd_received = << >>
    /\ sd_microq = << >>
    /\ sd_zstd = {}
    /\ sd_printed = << >>

\* the Go StreamData client is not run
IdleGoStreamData ==
    /\ gs_client = "none"
    /\ gs_pc = "idle"
    /\ gs_connOpen = FALSE
    /\ gs_ctxDone = FALSE
    /\ gs_pinger = "none"
    /\ gs_sent = << >>
    /\ gs_received = << >>
    /\ gs_pongs = 0
    /\ gs_printed = << >>
    /\ gs_retval = "none"

\* decompress is not run
IdleDecompress ==
    /\ dc_payload = << >>
    /\ dc_lib = "none"
    /\ dc_js = "idle"
    /\ dc_go = "idle"

\* streamBlocks is not run
IdleStreamBlocks ==
    /\ sb_lang = "none"
    /\ sb_pc = "idle"
    /\ sb_start = 0
    /\ sb_file = << >>
    /\ sb_pos = 0
    /\ sb_lineNumber = 0
    /\ sb_yielded = << >>

\* findBlockFile is not run
IdleFindBlockFile ==
    /\ fb_lang = "none"
    /\ fb_pc = "idle"
    /\ fb_store = << >>
    /\ fb_target = 0
    /\ fb_checkpoint = 0
    /\ fb_dates = << >>
    /\ fb_di = 0
    /\ fb_result = [ found |-> "idle", checkpoint |-> 0, date |-> 0,
                      startBlock |-> 0, endBlock |-> 0 ]
    /\ fb_err = "none"
    /\ fb_failed = {}

\* parseBlockRange is not run
IdleParseBlockRange ==
    /\ pk_key = << >>
    /\ pk_js = "idle"
    /\ pk_go = "idle"

\* the S3 backfill functions are not run
IdleBackfill == IdleStreamBlocks /\ IdleFindBlockFile /\ IdleParseBlockRange

\* main() calls streamL2Orderbook / streamL4Orderbook once
InitOrderbook ==
    /\ IdleStreamData
    /\ IdleGoStreamData
    /\ IdleBackfill
    /\ IdleDecompress
    /\ lang \in {"js", "go"}
    /\ mode \in {"l2", "l4"}
    /\ autoReconnect \in (IF lang = "js" THEN BOOLEAN ELSE {TRUE})
    /\ maxMessages \in (IF mode = "l4" THEN 0..(MaxMessages - 1) ELSE {0})
    /\ pc = "start"
    /\ retryCount = 0
    /\ msgCount = 0
    /\ totalMsgCount = 0
    /\ snapshotReceived = FALSE
    /\ shouldRetry = FALSE
    /\ connOpen = FALSE
    /\ cancelled = FALSE
    /\ delay = 0
    /\ request = << >>
    /\ outcome = "running"
    /\ retval = "none"
    /\ opened = 0
    /\ failures = 0
    /\ failRun = 0
    /\ resetRun = 0
    /\ runStreams = 0
    /\ lastTerminal = "none"
    /\ lastBlock = 0
    /\ cursorAtOpen = 0
    /\ retryAtReconnect = 0
    /\ dataSinceOpen = FALSE
    /\ cancelRequested = FALSE
    /\ resetMin = 0

\* the parameters of a run never change
Params == << lang, mode, autoReconnect, maxMessages >>

-----------------------------------------------------------------------------
(* The JavaScript orderbook client *)

\* One invocation of streamL2Orderbook / streamL4Orderbook up to the await:
\* fresh locals (retryCount = 0, totalMsgCount = 0), the loop guard, createClient
\* and the stream request.
JSInvocation ==
    /\ JSLoopGuard(0)
    /\ retryCount' = 0
    /\ msgCount' = 0
    /\ totalMsgCount' = 0
    /\ snapshotReceived' = FALSE
    /\ cancelled' = FALSE
    /\ request' = IF mode = "l2" THEN JSL2Request ELSE JSL4Request
    /\ pc' = "streaming"
    /\ delay' = 0
    /\ opened' = opened + 1
    /\ runStreams' = runStreams + 1
    /\ lastTerminal' = "none"
    /\ cursorAtOpen' = lastBlock
    /\ retryAtReconnect' = retryCount
    /\ dataSinceOpen' = FALSE
    /\ UNCHANGED << sdVars, gsVars, dcVars, sbVars, fbVars, pkVars, Params, cancelRequested, resetMin, shouldRetry, connOpen, outcome, retval, failures,
                    failRun, resetRun, lastBlock >>

\* main(): streamL2Orderbook(coin, levels) / streamL4Orderbook(coin)
JSStart ==
    /\ lang = "js"
    /\ pc = "start"
    /\ JSInvocation

\* the stream request throws: catch (err) { console.error(...); break; }
JSStartThrows ==
    /\ lang = "js"
    /\ pc \in {"start", "backoff"}
    /\ pc' = "done"
    /\ outcome' = "thrown"
    /\ delay' = 0
    /\ retryCount' = 0
    /\ totalMsgCount' = 0
    /\ UNCHANGED << sdVars, gsVars, dcVars, sbVars, fbVars, pkVars, Params, cancelRequested, resetMin, msgCount, snapshotReceived, shouldRetry, connOpen,
                    cancelled, request, retval, opened, failures, failRun,
                    resetRun, runStreams, lastTerminal, lastBlock, cursorAtOpen,
                    retryAtReconnect, dataSinceOpen >>

\* the setTimeout callback: () => streamL2Orderbook(coin, nLevels, autoReconnect)
JSTimerFires ==
    /\ lang = "js"
    /\ pc = "backoff"
    /\ JSInvocation

\* call.on('data', ...) of streamL2Orderbook
JSL2OnData(update) ==
    /\ lang = "js" /\ mode = "l2"
    /\ pc = "streaming"
    /\ msgCount < MaxMessages
    /\ msgCount' = msgCount + 1
    /\ retryCount' = IF JSL2Resets(msgCount + 1) THEN 0 ELSE retryCount
    /\ resetRun' = IF JSL2Resets(msgCount + 1) THEN 0 ELSE resetRun
    /\ runStreams' = IF JSL2Resets(msgCount + 1) THEN 1 ELSE runStreams
    /\ failRun' = 0
    /\ lastBlock' = update.block
    /\ dataSinceOpen' = TRUE
    /\ resetMin' = 0
    /\ UNCHANGED << sdVars, gsVars, dcVars, sbVars, fbVars, pkVars, Params, cancelRequested, pc, totalMsgCount, snapshotReceived, shouldRetry,
                    connOpen, cancelled, delay, request, outcome, retval, opened,
                    failures, lastTerminal, cursorAtOpen, retryAtReconnect >>

\* call.on('data', ...) of streamL4Orderbook
JSL4OnData(update) ==
    /\ lang = "js" /\ mode = "l4"
    /\ pc = "streaming"
    /\ ~cancelled
    /\ totalMsgCount < MaxMessages
    /\ totalMsgCount' = totalMsgCount + 1
    /\ snapshotReceived' = (snapshotReceived \/ update.kind = "snapshot")
    /\ retryCount' = IF JSL4Resets(update) THEN 0 ELSE retryCount
    /\ resetRun' = IF JSL4Resets(update) THEN 0 ELSE resetRun
    /\ runStreams' = IF JSL4Resets(update) THEN 1 ELSE runStreams
    /\ failRun' = 0
    /\ lastBlock' = IF update.kind = "empty" THEN lastBlock ELSE update.block
    /\ dataSinceOpen' = TRUE
    /\ cancelled' = JSReachedMax(maxMessages, totalMsgCount + 1)
    /\ resetMin' = 0
    /\ UNCHANGED << sdVars, gsVars, dcVars, sbVars, fbVars, pkVars, Params, cancelRequested, pc, msgCount, shouldRetry, connOpen, delay, request,
                    outcome, retval, opened, failures, lastTerminal, cursorAtOpen,
                    retryAtReconnect >>

\* call.on('error', ...) followed by the resolve of the awaited promise and the
\* break out of the loop. A cancelled call fails with CANCELLED.
JSOnError(code) ==
    /\ lang = "js"
    /\ pc = "streaming"
    /\ cancelled <=> code = "CANCELLED"
    /\ code = "DATA_LOSS" => failures < MaxFailures
    /\ lastTerminal' = code
    /\ failures' = IF code = "DATA_LOSS" THEN failures + 1 ELSE failures
    /\ failRun' = IF code = "DATA_LOSS" THEN failRun + 1 ELSE failRun
    /\ resetRun' = IF code = "DATA_LOSS" THEN resetRun + 1 ELSE resetRun
    /\ IF JSShouldReconnect(code, autoReconnect)
         THEN /\ retryCount' = JSCountRetry(retryCount)
              /\ IF JSMayRetry(JSCountRetry(retryCount))
                   THEN /\ delay' = JSBackoffDelay(JSCountRetry(retryCount))
                        /\ pc' = "backoff"
                        /\ outcome' = outcome
                   ELSE /\ delay' = 0
                        /\ pc' = "done"
                        /\ outcome' = "exhausted"
         ELSE /\ retryCount' = retryCount
              /\ delay' = 0
              /\ pc' = "done"
              /\ outcome' = IF mode = "l4" /\ code = "CANCELLED"
                              THEN "cancelled" ELSE "fatal"
    /\ resetMin' \in (IF code = "DATA_LOSS" THEN UpstreamMins ELSE {resetMin})
    /\ UNCHANGED << sdVars, gsVars, dcVars, sbVars, fbVars, pkVars, Params, cancelRequested, msgCount, totalMsgCount, snapshotReceived, shouldRetry,
                    connOpen, cancelled, request, retval, opened, runStreams,
                    lastBlock, cursorAtOpen, retryAtReconnect, dataSinceOpen >>

\* call.on('end', ...) followed by the resolve of the awaited promise and the break
JSOnEnd ==
    /\ lang = "js"
    /\ pc = "streaming"
    /\ ~cancelled
    /\ lastTerminal' = "end"
    /\ pc' = "done"
    /\ outcome' = "ended"
    /\ UNCHANGED << sdVars, gsVars, dcVars, sbVars, fbVars, pkVars, Params, cancelRequested, resetMin, retryCount, msgCount, totalMsgCount, snapshotReceived,
                    shouldRetry, connOpen, cancelled, delay, request, retval, opened,
                    failures, failRun, resetRun, runStreams, lastBlock, cursorAtOpen,
                    retryAtReconnect, dataSinceOpen >>

\* The caller wants the session stopped while it waits to reconnect. Neither
\* client can be told: streamL2Orderbook / streamL4Orderbook take no context,
\* signal or handle, the Go stream runs on context.Background() and time.Sleep
\* cannot be interrupted, and the JavaScript timer's handle is not kept. The wish
\* changes nothing in the program.
CallerCancels ==
    /\ pc = "backoff"
    /\ ~cancelRequested
    /\ cancelRequested' = TRUE
    /\ UNCHANGED << sdVars, gsVars, dcVars, sbVars, fbVars, pkVars, Params, resetMin, pc, retryCount, msgCount,
                    totalMsgCount, snapshotReceived, shouldRetry, connOpen,
                    cancelled, delay, request, outcome, retval, opened, failures,
                    failRun, resetRun, runStreams, lastTerminal, lastBlock,
                    cursorAtOpen, retryAtReconnect, dataSinceOpen >>

JSNext ==
    \/ JSStart
    \/ JSStartThrows
    \/ JSTimerFires
    \/ \E u \in L2Updates : JSL2OnData(u)
    \/ \E u \in L4Updates : JSL4OnData(u)
    \/ \E c \in StatusCodes : JSOnError(c)
    \/ JSOnEnd

-----------------------------------------------------------------------------
(* The Go orderbook client *)

\* a variant of GoClose that leaves the connection open
GoClose_Forgotten(open) == open
\* conn.Close(): whether the connection is open afterwards
GoClose(open) == FALSE

\* the head of "for retryCount < maxRetries" and grpc.Dial succeeding; a false
\* guard leaves the loop and returns nil
GoLoop ==
    /\ lang = "go"
    /\ pc \in {"start", "loop"}
    /\ IF GoLoopGuard(retryCount)
         THEN /\ pc' = "dialed"
              /\ connOpen' = TRUE
              /\ UNCHANGED << outcome, retval >>
         ELSE /\ pc' = "done"
              /\ connOpen' = connOpen
              /\ outcome' = "loopExit"
              /\ retval' = "nil"
    /\ UNCHANGED << sdVars, gsVars, dcVars, sbVars, fbVars, pkVars, Params, cancelRequested, resetMin, retryCount, msgCount, totalMsgCount, snapshotReceived,
                    shouldRetry, cancelled, delay, request, opened, failures,
                    failRun, resetRun, runStreams, lastTerminal, lastBlock,
                    cursorAtOpen, retryAtReconnect, dataSinceOpen >>

\* grpc.Dial fails: return fmt.Errorf("failed to connect: %w", err)
GoDialFails ==
    /\ lang = "go"
    /\ pc \in {"start", "loop"}
    /\ GoLoopGuard(retryCount)
    /\ pc' = "done"
    /\ outcome' = "dialFailed"
    /\ retval' = "error"
    /\ UNCHANGED << sdVars, gsVars, dcVars, sbVars, fbVars, pkVars, Params, cancelRequested, resetMin, retryCount, msgCount, totalMsgCount, snapshotReceived,
                    shouldRetry, connOpen, cancelled, delay, request, opened,
                    failures, failRun, resetRun, runStreams, lastTerminal,
                    lastBlock, cursorAtOpen, retryAtReconnect, dataSinceOpen >>

\* client.StreamL2Book / StreamL4Book succeeds; msgCount := 0 (L2),
\* snapshotReceived := false (L4), shouldRetry := false
GoStartStream ==
    /\ lang = "go"
    /\ pc = "dialed"
    /\ request' = IF mode = "l2" THEN GoL2Request ELSE GoL4Request
    /\ msgCount' = 0
    /\ snapshotReceived' = FALSE
    /\ shouldRetry' = FALSE
    /\ pc' = "streaming"
    /\ opened' = opened + 1
    /\ runStreams' = runStreams + 1
    /\ lastTerminal' = "none"
    /\ cursorAtOpen' = lastBlock
    /\ dataSinceOpen' = FALSE
    /\ UNCHANGED << sdVars, gsVars, dcVars, sbVars, fbVars, pkVars, Params, cancelRequested, resetMin, retryCount, totalMsgCount, connOpen, cancelled, delay,
                    outcome, retval, failures, failRun, resetRun, lastBlock,
                    retryAtReconnect >>

\* client.StreamL2Book / StreamL4Book fails: conn.Close(); return the error
GoStartStreamFails ==
    /\ lang = "go"
    /\ pc = "dialed"
    /\ request' = IF mode = "l2" THEN GoL2Request ELSE GoL4Request
    /\ connOpen' = GoClose(connOpen)
    /\ pc' = "done"
    /\ outcome' = "streamFailed"
    /\ retval' = "error"
    /\ opened' = opened + 1
    /\ cursorAtOpen' = lastBlock
    /\ UNCHANGED << sdVars, gsVars, dcVars, sbVars, fbVars, pkVars, Params, cancelRequested, resetMin, retryCount, msgCount, totalMsgCount, snapshotReceived,
                    shouldRetry, cancelled, delay, failures, failRun, resetRun,
                    runStreams, lastTerminal, lastBlock, retryAtReconnect,
                    dataSinceOpen >>

\* streamL2Orderbook: stream.Recv() returns an update
GoL2Recv(update) ==
    /\ lang = "go" /\ mode = "l2"
    /\ pc = "streaming"
    /\ msgCount < MaxMessages
    /\ msgCount' = msgCount + 1
    /\ retryCount' = IF GoL2Resets(msgCount + 1) THEN 0 ELSE retryCount
    /\ resetRun' = IF GoL2Resets(msgCount + 1) THEN 0 ELSE resetRun
    /\ runStreams' = IF GoL2Resets(msgCount + 1) THEN 1 ELSE runStreams
    /\ failRun' = 0
    /\ lastBlock' = update.block
    /\ dataSinceOpen' = TRUE
    /\ resetMin' = 0
    /\ UNCHANGED << sdVars, gsVars, dcVars, sbVars, fbVars, pkVars, Params, cancelRequested, pc, totalMsgCount, snapshotReceived, shouldRetry,
                    connOpen, cancelled, delay, request, outcome, retval, opened,
                    failures, lastTerminal, cursorAtOpen, retryAtReconnect >>

\* streamL4Orderbook: stream.Recv() returns an update; reaching maxMessages
\* closes the connection and returns nil
GoL4Recv(update) ==
    /\ lang = "go" /\ mode = "l4"
    /\ pc = "streaming"
    /\ totalMsgCount < MaxMessages
    /\ totalMsgCount' = totalMsgCount + 1
    /\ snapshotReceived' = (snapshotReceived \/ update.kind = "snapshot")
    /\ retryCount' = IF GoL4Resets(update) THEN 0 ELSE retryCount
    /\ resetRun' = IF GoL4Resets(update) THEN 0 ELSE resetRun
    /\ runStreams' = IF GoL4Resets(update) THEN 1 ELSE runStreams
    /\ failRun' = 0
    /\ lastBlock' = IF update.kind = "empty" THEN lastBlock ELSE update.block
    /\ dataSinceOpen' = TRUE
    /\ IF GoReachedMax(maxMessages, totalMsgCount + 1)
         THEN /\ connOpen' = GoClose(connOpen)
              /\ pc' = "done"
              /\ outcome' = "maxMessages"
              /\ retval' = "nil"
         ELSE UNCHANGED << connOpen, pc, outcome, retval >>
    /\ resetMin' = 0
    /\ UNCHANGED << sdVars, gsVars, dcVars, sbVars, fbVars, pkVars, Params, cancelRequested, msgCount, shouldRetry, cancelled, delay, request,
                    opened, failures, lastTerminal, cursorAtOpen, retryAtReconnect >>

\* stream.Recv() returns io.EOF: break; conn.Close(); !shouldRetry: break; return nil
GoRecvEOF ==
    /\ lang = "go"
    /\ pc = "streaming"
    /\ lastTerminal' = "end"
    /\ connOpen' = GoClose(connOpen)
    /\ pc' = IF ~shouldRetry THEN "done" ELSE "loop"
    /\ outcome' = IF ~shouldRetry THEN "ended" ELSE outcome
    /\ retval' = IF ~shouldRetry THEN "nil" ELSE retval
    /\ UNCHANGED << sdVars, gsVars, dcVars, sbVars, fbVars, pkVars, Params, cancelRequested, resetMin, retryCount, msgCount, totalMsgCount, snapshotReceived,
                    shouldRetry, cancelled, delay, request, opened, failures,
                    failRun, resetRun, runStreams, lastBlock, cursorAtOpen,
                    retryAtReconnect, dataSinceOpen >>

\* stream.Recv() returns an error with a status code: DataLoss counts a retry and
\* either starts time.Sleep(delay) or gives up; any other code closes and returns
\* the error
GoRecvError(code) ==
    /\ lang = "go"
    /\ pc = "streaming"
    /\ code = "DATA_LOSS" => failures < MaxFailures
    /\ lastTerminal' = code
    /\ failures' = IF code = "DATA_LOSS" THEN failures + 1 ELSE failures
    /\ failRun' = IF code = "DATA_LOSS" THEN failRun + 1 ELSE failRun
    /\ resetRun' = IF code = "DATA_LOSS" THEN resetRun + 1 ELSE resetRun
    /\ IF GoIsDataLoss(code)
         THEN /\ retryCount' = GoCountRetry(retryCount)
              /\ IF GoMayRetry(GoCountRetry(retryCount))
                   THEN /\ delay' = GoBackoffDelay(GoCountRetry(retryCount))
                        /\ pc' = "backoff"
                        /\ UNCHANGED << connOpen, outcome, retval >>
                   ELSE /\ delay' = 0
                        /\ connOpen' = GoClose(connOpen)
                        /\ pc' = "done"
                        /\ outcome' = "exhausted"
                        /\ retval' = "nil"
         ELSE /\ retryCount' = retryCount
              /\ delay' = 0
              /\ connOpen' = GoClose(connOpen)
              /\ pc' = "done"
              /\ outcome' = "fatal"
              /\ retval' = "error"
    /\ resetMin' \in (IF code = "DATA_LOSS" THEN UpstreamMins ELSE {resetMin})
    /\ UNCHANGED << sdVars, gsVars, dcVars, sbVars, fbVars, pkVars, Params, cancelRequested, msgCount, totalMsgCount, snapshotReceived, shouldRetry,
                    cancelled, request, opened, runStreams, lastBlock, cursorAtOpen,
                    retryAtReconnect, dataSinceOpen >>

\* time.Sleep(delay) returns: shouldRetry = true; break; conn.Close(); the loop
\* goes round
GoWake ==
    /\ lang = "go"
    /\ pc = "backoff"
    /\ shouldRetry' = TRUE
    /\ connOpen' = GoClose(connOpen)
    /\ delay' = 0
    /\ pc' = "loop"
    /\ retryAtReconnect' = retryCount
    /\ UNCHANGED << sdVars, gsVars, dcVars, sbVars, fbVars, pkVars, Params, cancelRequested, resetMin, retryCount, msgCount, totalMsgCount, snapshotReceived,
                    cancelled, request, outcome, retval, opened, failures, failRun,
                    resetRun, runStreams, lastTerminal, lastBlock, cursorAtOpen,
                    dataSinceOpen >>

GoNext ==
    \/ GoLoop
    \/ GoDialFails
    \/ GoStartStream
    \/ GoStartStreamFails
    \/ \E u \in L2Updates : GoL2Recv(u)
    \/ \E u \in L4Updates : GoL4Recv(u)
    \/ GoRecvEOF
    \/ \E c \in StatusCodes : GoRecvError(c)
    \/ GoWake

NextOrderbook == JSNext \/ GoNext \/ CallerCancels

SpecOrderbook == InitOrderbook /\ [][NextOrderbook]_vars

-----------------------------------------------------------------------------
(* Properties of the orderbook clients *)

\* maxRetries of the implementation that runs
MaxRetriesOf(l) == IF l = "js" THEN js_maxRetries ELSE go_maxRetries

\* the delays 2s, 4s, 8s, ... in milliseconds, by number of failures in a row
DelayTable == << 2000, 4000, 8000, 16000, 32000, 64000, 128000, 256000, 512000,
                 1024000, 2048000, 4096000, 8192000 >>

\* C2: in the JavaScript client, the delay waited after the k-th DATA_LOSS failure
\* in a row (no data message in between) is 2s * 2^(k-1).
C2_JSDelayDoubles ==
    (lang = "js" /\ pc = "backoff") =>
        (failRun \in 1..Len(DelayTable) /\ delay = DelayTable[failRun])

\* C3: in the JavaScript client with autoReconnect, after 10 DATA_LOSS failures in
\* a row (no data message in between) the client has given up: it is not waiting
\* to reconnect and is not streaming again.
C3_JSGivesUpAfterTen ==
    (lang = "js" /\ autoReconnect /\ failRun >= js_maxRetries) =>
        (pc = "done" /\ delay = 0)

\* C4: in the Go client, the delay slept after the k-th DataLoss failure in a row
\* (no counter-resetting message in between) is exactly 2s * 2^(k-1).
C4_GoDelayExact ==
    (lang = "go" /\ pc = "backoff") =>
        (resetRun \in 1..Len(DelayTable) /\ delay = DelayTable[resetRun])

C4_Witness ==
    lang = "go" /\ pc = "backoff" /\ resetRun = 5 /\ delay = 32000

\* C5: in the Go client, a run of DataLoss failures in a row uses at most 10
\* streams, and once the retries are exhausted the function has returned with the
\* connection closed and takes no further step.
C5_GoAtMostTenStreams ==
    /\ [](lang = "go" => runStreams <= go_maxRetries)
    /\ []((lang = "go" /\ outcome = "exhausted") =>
            (pc = "done" /\ ~connOpen /\ delay = 0 /\ retval = "nil"))
    /\ [][(lang = "go" /\ outcome = "exhausted") => UNCHANGED vars]_vars

C5_Witness ==
    lang = "go" /\ outcome = "exhausted" /\ runStreams = go_maxRetries
    /\ opened = go_maxRetries

\* C6: the retry counter is reset to zero if and only if a data message was
\* processed since the last reconnect: a reconnect alone leaves it as it was, a
\* reconnected stream that fails at once with DATA_LOSS leaves it strictly
\* greater than before the reconnect, and once a message was processed it is zero.
C6_ResetOnlyOnData ==
    (opened > 1 /\ autoReconnect /\ outcome \in {"running", "exhausted"}) =>
        /\ (pc = "streaming" /\ ~dataSinceOpen) => retryCount = retryAtReconnect
        /\ (pc \in {"backoff", "done"} /\ ~dataSinceOpen
              /\ lastTerminal = "DATA_LOSS") => retryCount > retryAtReconnect
        /\ (pc = "streaming" /\ dataSinceOpen) => retryCount = 0

C8_ResumeFromCursor ==
    (opened > 1 /\ cursorAtOpen > 0) => StartPosition(request) = cursorAtOpen + 1

\* C10: a stream error other than DATA_LOSS and a normal end of stream terminate
\* the session, whatever the retry counter: no backoff is started, the connection
\* is closed, and no further step is taken.
C10_FatalAndEndTerminate ==
    /\ [](lastTerminal \notin {"none", "DATA_LOSS"} =>
            (pc = "done" /\ delay = 0 /\ ~connOpen
               /\ outcome \in {"ended", "fatal", "cancelled"}))
    /\ [][lastTerminal \notin {"none", "DATA_LOSS"} => UNCHANGED vars]_vars

C10_Witness ==
    /\ lastTerminal \in {"end", "UNAVAILABLE"} /\ pc = "done"
    /\ retryCount = 3 /\ opened = 4

\* a failure to open the transport (grpc.Dial) or to start the stream (the stream
\* request returns an error / throws); none of them is an authentication failure,
\* which the server reports later, as the status of the stream
OpenFails == GoDialFails \/ GoStartStreamFails \/ JSStartThrows

\* C11: a failure to open the transport or to start the stream is a recoverable
\* fault: the step that meets it counts an attempt and enters the backoff wait,
\* and the session goes on running.
C11_OpenFailureIsRecoverable ==
    [][OpenFails => (retryCount' = retryCount + 1 /\ pc' = "backoff"
                       /\ outcome' = "running")]_vars

\* C12: once a cancellation was issued during a backoff wait, the pending
\* reconnect never fires and no further stream request is issued (the session is
\* still waiting or has ended), and when the session has ended it has ended as
\* cancelled.
C12_CancelInBackoffStops ==
    cancelRequested =>
        /\ pc \in {"backoff", "done"}
        /\ pc = "done" => outcome = "cancelled"

\* C13: in the Go client, no connection of the session is open while it waits out
\* a backoff delay, and a connection is dialed only when the previous one was
\* closed.
C13_NoConnectionInBackoff ==
    /\ []((lang = "go" /\ pc = "backoff") => ~connOpen)
    /\ [][(lang = "go" /\ pc' = "dialed" /\ pc # "dialed") => ~connOpen]_vars

\* C14: what the Go function returns tells a retries-exhausted run from the other
\* ends: a clean end of stream returns nil, a fatal error returns the error, and
\* giving up returns neither of the two.
C14_ExhaustedIsDistinct ==
    (lang = "go" /\ pc = "done") =>
        /\ outcome = "ended" => retval = "nil"
        /\ outcome = "fatal" => retval = "error"
        /\ outcome = "exhausted" => retval \notin {"nil", "error"}

\* the steps the clients take by themselves: the calls of main, the timer of the
\* backoff running out, the loop going round and the stream request. What a
\* stream delivers, and when, is the server's and the network's to decide.
ClientSteps == JSStart \/ JSTimerFires \/ GoLoop \/ GoStartStream \/ GoWake

\* the orderbook clients on a runtime that runs every step a client can take
FairOrderbook == SpecOrderbook /\ WF_vars(ClientSteps)

\* C16: a session never remains in the streaming state forever while it receives
\* nothing: a stream delivers boundedly many messages, so a session that stays
\* streaming is silent from some point on, and the claim is that it leaves the
\* state time and again.
C16_SilenceEndsStreaming == []<>(pc # "streaming")

\* what a client prints from a DATA_LOSS status to the stream request of the
\* reconnect: the server's message, the wait, and the attempt
ReconnectNotices ==
    << "Server reinitialized", "Waiting before reconnecting", "Reconnecting" >>

\* C17: when the stream was reset (DATA_LOSS) with the last processed position at
\* 100 and the upstream's lowest available position at 150, the stream request
\* of the reconnect asks for start position 150, and a GapDetected notification
\* for 101..150 was emitted on the way to it.
C17_GapIsAnnounced ==
    (opened > 1 /\ pc = "streaming" /\ ~dataSinceOpen /\ lastTerminal = "none"
       /\ cursorAtOpen = 100 /\ resetMin = 150) =>
        /\ StartPosition(request) = 150
        /\ \E i \in DOMAIN ReconnectNotices :
               ReconnectNotices[i] = "GapDetected from 101 to 150"

\* C20: in the Go L4 client with maxMessages = N > 0 the messages processed, over
\* all connections of the session, never exceed N; the session stops on the
\* message count exactly when the N-th message was processed, with the connection
\* closed and nil returned, and takes no further step (no reconnect); with N = 0
\* the session never stops on the message count.
C20_GoMaxMessages ==
    /\ []((lang = "go" /\ mode = "l4") =>
            /\ maxMessages > 0 => totalMsgCount <= maxMessages
            /\ (maxMessages > 0 /\ totalMsgCount = maxMessages) =>
                   (outcome = "maxMessages" /\ pc = "done" /\ ~connOpen
                      /\ retval = "nil")
            /\ outcome = "maxMessages" =>
                   (maxMessages > 0 /\ totalMsgCount = maxMessages)
            /\ maxMessages = 0 => outcome # "maxMessages")
    /\ [][(lang = "go" /\ outcome = "maxMessages") => UNCHANGED vars]_vars

\* the second and last message arrives on the second connection
C20_Witness ==
    /\ lang = "go" /\ mode = "l4" /\ maxMessages = 2 /\ outcome = "maxMessages"
    /\ totalMsgCount = 2 /\ opened = 2 /\ failures = 1 /\ dataSinceOpen

\* C23: in the Go L2 client a connection that delivered at least one update and
\* then failed with DataLoss never makes the client give up: the retry counter
\* is 1 after the failure and the backoff slept is 2s, however many failures
\* there have been.
C23_DataKeepsBackoffAtBase ==
    (lang = "go" /\ mode = "l2" /\ dataSinceOpen /\ lastTerminal = "DATA_LOSS") =>
        /\ retryCount = 1
        /\ outcome # "exhausted"
        /\ pc = "backoff" => delay = 2000

C23_Witness ==
    /\ lang = "go" /\ mode = "l2" /\ pc = "backoff" /\ delay = 2000
    /\ dataSinceOpen /\ lastTerminal = "DATA_LOSS"
    /\ failures > go_maxRetries /\ opened = failures /\ retryAtReconnect = 1

\* C28: the Go orderbook client has at most one connection open: it dials only
\* when the connection of the round before is closed; and when the function
\* has returned, on whatever path, no connection it opened is open.
C28_GoClosesEveryConnection ==
    /\ []((lang = "go" /\ pc = "done") => (~connOpen /\ retval # "none"))
    /\ [][(lang = "go" /\ (GoLoop \/ GoDialFails)) => ~connOpen]_vars

C28_Witness ==
    /\ lang = "go" /\ pc = "done" /\ outcome = "exhausted" /\ ~connOpen
    /\ opened = go_maxRetries

\* an L4 update of the given kind is received and handled
L4Receives(kind) ==
    \E update \in L4Updates :
        update.kind = kind /\ (JSL4OnData(update) \/ GoL4Recv(update))

\* C22: in the L4 client the retry counter is set to 0 by every snapshot and
\* left as it is by a diff, so a connection that delivers no snapshot and fails
\* with DATA_LOSS goes on with the backoff sequence: its failure counts one more
\* than the counter held when the connection was made, and the delay waited is
\* the one of that count.
C22_SnapshotResetsDiffKeeps ==
    /\ [][L4Receives("snapshot") => retryCount' = 0]_vars
    /\ [][L4Receives("diff") => retryCount' = retryCount]_vars
    /\ [][(mode = "l4" /\ pc = "streaming" /\ ~snapshotReceived /\ pc' = "backoff") =>
              /\ retryCount' = retryAtReconnect + 1
              /\ delay' = 2000 * Pow2(retryAtReconnect)]_vars

-----------------------------------------------------------------------------
(* The JavaScript StreamData clients: streamData (index.js) and            *)
(* streamWithFilter (filter_example.js).                                   *)
(*                                                                         *)
(* The k-th data message received carries block number k. Its 'data'       *)
(* handler is an async function: it runs up to "await decompress(data)"    *)
(* and is resumed later. decompress of a payload without the zstd prefix   *)
(* returns without waiting, so the handler is resumed from the microtask   *)
(* queue, in FIFO order; decompress of a zstd payload awaits               *)
(* zstd.decompress, whose work runs on the thread pool: the handler is     *)
(* resumed when its job completes, and jobs running side by side complete  *)
(* in any order. Timers and job completions run only when the microtask    *)
(* queue is empty. When zstd.decompress rejects, so does the handler's     *)
(* promise, which nobody handles: Node 15 and later end the process on an  *)
(* unhandled rejection, earlier ones print a warning and go on.            *)

\* the encodings of a data payload: plain text, a zstd frame, or bytes that begin
\* with the zstd magic number and do not decompress
Encodings == { "plain", "zstd", "badzstd" }

\* a printed block line; a printed status line
BlockLine(b) == [ line |-> "block", block |-> b ]
StatusLine(l) == [ line |-> l, block |-> 0 ]

\* decompress(data) of a 'data' handler: TRUE when it awaits zstd.decompress
\* (data[0..3] is the zstd magic number)
SDAwaitsZstd(enc) == enc \in {"zstd", "badzstd"}

\* zstd.decompress(data) rejects
SDZstdRejects(enc) == enc = "badzstd"

InitStreamData ==
    /\ IdleOrderbook
    /\ IdleGoStreamData
    /\ IdleBackfill
    /\ IdleDecompress
    /\ sd_client \in {"raw", "filter"}
    /\ sd_pc = "init"
    /\ sd_written = << >>
    /\ sd_received = << >>
    /\ sd_microq = << >>
    /\ sd_zstd = {}
    /\ sd_printed = << >>

\* streamData() / streamWithFilter(): the call is created, the subscribe request
\* is written, the handlers are registered and the keep-alive interval is set
SDStart ==
    /\ sd_pc = "init"
    /\ sd_pc' = "streaming"
    /\ sd_written' = << "subscribe" >>
    /\ UNCHANGED << obVars, gsVars, dcVars, sbVars, fbVars, pkVars, sd_client, sd_received, sd_microq, sd_zstd,
                    sd_printed >>

\* call.on('data', async (response) => ...) with response.data set: the handler
\* runs up to the await
SDOnData(enc) ==
    /\ sd_pc = "streaming"
    /\ Len(sd_received) < MaxData
    /\ LET id == Len(sd_received) + 1 IN
         /\ sd_received' = Append(sd_received, [ block |-> id, enc |-> enc ])
         /\ IF SDAwaitsZstd(enc)
              THEN /\ sd_zstd' = sd_zstd \cup { id }
                   /\ sd_microq' = sd_microq
              ELSE /\ sd_microq' = Append(sd_microq, id)
                   /\ sd_zstd' = sd_zstd
    /\ UNCHANGED << obVars, gsVars, dcVars, sbVars, fbVars, pkVars, sd_client, sd_pc, sd_written, sd_printed >>

\* the microtask queue resumes the oldest handler whose decompress returned
\* without waiting: it prints its block (parsed, or raw in the catch branch)
SDResume ==
    /\ sd_pc # "crashed"
    /\ sd_microq # << >>
    /\ sd_printed' = Append(sd_printed, BlockLine(Head(sd_microq)))
    /\ sd_microq' = Tail(sd_microq)
    /\ UNCHANGED << obVars, gsVars, dcVars, sbVars, fbVars, pkVars, sd_client, sd_pc, sd_written, sd_received,
                    sd_zstd >>

\* a zstd.decompress job completes: its handler is resumed and prints its block;
\* or the job fails and the handler's promise rejects unhandled, which prints
\* nothing and either ends the process or leaves it running
SDZstdDone(id) ==
    /\ sd_pc # "crashed"
    /\ id \in sd_zstd
    /\ sd_microq = << >>
    /\ sd_zstd' = sd_zstd \ { id }
    /\ IF SDZstdRejects(sd_received[id].enc)
         THEN /\ sd_printed' = sd_printed
              /\ sd_pc' \in {"crashed", sd_pc}
         ELSE /\ sd_printed' = Append(sd_printed, BlockLine(id))
              /\ sd_pc' = sd_pc
    /\ UNCHANGED << obVars, gsVars, dcVars, sbVars, fbVars, pkVars, sd_client, sd_written, sd_received,
                    sd_microq >>

\* call.on('end', () => console.log('Stream ended')); streamWithFilter registers
\* no 'end' handler
SDOnEnd ==
    /\ sd_pc = "streaming"
    /\ sd_pc' = "ended"
    /\ sd_printed' = IF sd_client = "raw"
                       THEN Append(sd_printed, StatusLine("Stream ended"))
                       ELSE sd_printed
    /\ UNCHANGED << obVars, gsVars, dcVars, sbVars, fbVars, pkVars, sd_client, sd_written, sd_received, sd_microq,
                    sd_zstd >>

\* call.on('error', (err) => console.error('Error:', err.message))
SDOnError ==
    /\ sd_pc = "streaming"
    /\ sd_pc' = "errored"
    /\ sd_printed' = Append(sd_printed, StatusLine("Error"))
    /\ UNCHANGED << obVars, gsVars, dcVars, sbVars, fbVars, pkVars, sd_client, sd_written, sd_received, sd_microq,
                    sd_zstd >>

\* a variant of SDIntervalWrites that writes two pings at a tick
SDIntervalWrites_Twice(written) == written \o << "ping", "ping" >>
\* what the setInterval callback writes to the call at a tick:
\* call.write({ ping: { timestamp: Date.now() } })
SDIntervalWrites(written) == Append(written, "ping")

\* the setInterval callback: call.write({ ping: ... }); the interval is never
\* cleared
SDPing ==
    /\ sd_pc \in {"streaming", "ended", "errored"}
    /\ sd_microq = << >>
    /\ Len(sd_written) < 1 + MaxPings
    /\ sd_written' = SDIntervalWrites(sd_written)
    /\ UNCHANGED << obVars, gsVars, dcVars, sbVars, fbVars, pkVars, sd_client, sd_pc, sd_received, sd_microq,
                    sd_zstd, sd_printed >>

NextStreamData ==
    \/ SDStart
    \/ \E enc \in Encodings : SDOnData(enc)
    \/ SDResume
    \/ \E id \in 1..MaxData : SDZstdDone(id)
    \/ SDOnEnd
    \/ SDOnError
    \/ SDPing

\* the block numbers printed, in the order printed
PrintedBlocks ==
    LET IsBlock(l) == l.line = "block"
        blocks == SelectSeq(sd_printed, IsBlock)
    IN [ i \in 1..Len(blocks) |-> blocks[i].block ]

\* C1: on a stream that has not failed, the blocks are printed once each and in
\* the order their messages were received: what is printed is always the first
\* blocks received, in order.
C1_SinkInOrder ==
    sd_pc \in {"streaming", "ended"} =>
        \A i \in 1..Len(PrintedBlocks) : PrintedBlocks[i] = sd_received[i].block

SpecStreamData == InitStreamData /\ [][NextStreamData]_vars

\* the block of the data message of number id has been printed
SDPrinted(id) == \E i \in 1..Len(sd_printed) : sd_printed[i] = BlockLine(id)

\* C29: in the raw-data client, when 'Stream ended' is printed every data
\* message received (and decompressed without error) has been printed, and no
\* block is printed after the line that reports the end or the error of the
\* stream.
C29_NothingPrintedAfterEnd ==
    /\ [][(sd_client = "raw" /\ SDOnEnd) =>
              \A id \in 1..Len(sd_received) :
                  ~SDZstdRejects(sd_received[id].enc) => SDPrinted(id)]_vars
    /\ [](sd_client = "raw" =>
              \A i \in 1..Len(sd_printed) : \A j \in 1..Len(sd_printed) :
                  (sd_printed[i].line \in {"Stream ended", "Error"} /\ i < j) =>
                      sd_printed[j].line # "block")

\* C30: in the JavaScript StreamData clients nothing is written to a call that
\* has emitted 'end' or 'error': the keep-alive timer has stopped.
C30_NoPingAfterTermination ==
    [][(sd_pc \in {"ended", "errored"}) => (sd_written' = sd_written)]_vars

-----------------------------------------------------------------------------
(* The Go StreamData clients: streamData (the raw-data client in           *)
(* orderbook_stream_example.go) and streamWithFilter (filter_example.go).  *)
(*                                                                         *)
(* The k-th data message received carries block number k. The receive loop *)
(* handles one message at a time, to the end, before the next Recv.        *)

\* a data payload: plain text, a zstd frame, or bytes that begin with the zstd
\* magic number and do not decompress; and whether its text is JSON
GoDataMsgs == [ enc : {"plain", "zstd", "badzstd"}, json : BOOLEAN ]

\* decompress(u.Data.Data) returns a non-nil error: DecodeAll failed
GSDecompressFails(m) == m.enc = "badzstd"

\* json.Unmarshal([]byte(decompressed), &parsed) == nil; the text of a failed
\* decompress is "", which is not JSON
GSParses(m) == ~GSDecompressFails(m) /\ m.json

\* streamData, case *pb.SubscribeUpdate_Data: what handling message m of block b
\* prints or logs
GSRawDataLines(m, b) ==
    IF GSDecompressFails(m) THEN << StatusLine("Decompress error") >>
    ELSE << BlockLine(b) >>

\* streamWithFilter, if data := resp.GetData(); data != nil: the error of
\* decompress is dropped and the block is printed only when its text parses
GSFilterDataLines(m, b) ==
    IF GSParses(m) THEN << BlockLine(b) >> ELSE << >>

\* the pings sent so far
GSPingsSent == Len(SelectSeq(gs_sent, LAMBDA x : x = "ping"))

InitGoStreamData ==
    /\ IdleOrderbook
    /\ IdleStreamData
    /\ IdleDecompress
    /\ IdleBackfill
    /\ gs_client \in {"raw", "filter"}
    /\ gs_pc = "init"
    /\ gs_connOpen = FALSE
    /\ gs_ctxDone = FALSE
    /\ gs_pinger = "none"
    /\ gs_sent = << >>
    /\ gs_received = << >>
    /\ gs_pongs = 0
    /\ gs_printed = << >>
    /\ gs_retval = "none"

\* createConnection() / grpc.Dial succeeds; defer conn.Close()
GSDial ==
    /\ gs_pc = "init"
    /\ gs_pc' = "dialed"
    /\ gs_connOpen' = TRUE
    /\ UNCHANGED << obVars, sdVars, dcVars, sbVars, fbVars, pkVars, gs_client, gs_ctxDone, gs_pinger,
                    gs_sent, gs_received, gs_pongs, gs_printed, gs_retval >>

\* createConnection() / grpc.Dial fails: return the error
GSDialFails ==
    /\ gs_pc = "init"
    /\ gs_pc' = "done"
    /\ gs_retval' = "error"
    /\ UNCHANGED << obVars, sdVars, dcVars, sbVars, fbVars, pkVars, gs_client, gs_connOpen, gs_ctxDone,
                    gs_pinger, gs_sent, gs_received, gs_pongs, gs_printed >>

\* client.StreamData(ctx) succeeds, the subscribe request is sent, the stream is
\* announced and the keep-alive goroutine is started
GSSubscribe ==
    /\ gs_pc = "dialed"
    /\ ~gs_ctxDone
    /\ gs_pc' = "streaming"
    /\ gs_sent' = << "subscribe" >>
    /\ gs_pinger' = "running"
    /\ gs_printed' = Append(gs_printed, StatusLine("Streaming"))
    /\ UNCHANGED << obVars, sdVars, dcVars, sbVars, fbVars, pkVars, gs_client, gs_connOpen, gs_ctxDone,
                    gs_received, gs_pongs, gs_retval >>

\* client.StreamData(ctx) or the Send of the subscribe request fails: return the
\* error; the deferred conn.Close() runs
GSSubscribeFails ==
    /\ gs_pc = "dialed"
    /\ gs_pc' = "done"
    /\ gs_connOpen' = FALSE
    /\ gs_retval' = "error"
    /\ UNCHANGED << obVars, sdVars, dcVars, sbVars, fbVars, pkVars, gs_client, gs_ctxDone, gs_pinger,
                    gs_sent, gs_received, gs_pongs, gs_printed >>

\* stream.Recv() returns a data message: it is decompressed, parsed and printed,
\* and the loop goes round
GSRecvData(m) ==
    /\ gs_pc = "streaming"
    /\ Len(gs_received) < MaxData
    /\ LET b == Len(gs_received) + 1 IN
         /\ gs_received' = Append(gs_received,
                                  [ block |-> b, enc |-> m.enc, json |-> m.json ])
         /\ gs_printed' = gs_printed \o (IF gs_client = "raw"
                                           THEN GSRawDataLines(m, b)
                                           ELSE GSFilterDataLines(m, b))
    /\ UNCHANGED << obVars, sdVars, dcVars, sbVars, fbVars, pkVars, gs_client, gs_pc, gs_connOpen,
                    gs_ctxDone, gs_pinger, gs_sent, gs_pongs, gs_retval >>

\* stream.Recv() returns a pong (the server answers a ping): streamData logs it,
\* streamWithFilter drops it
GSRecvPong ==
    /\ gs_pc = "streaming"
    /\ gs_pongs < GSPingsSent
    /\ gs_pongs' = gs_pongs + 1
    /\ gs_printed' = IF gs_client = "raw"
                       THEN Append(gs_printed, StatusLine("Pong"))
                       ELSE gs_printed
    /\ UNCHANGED << obVars, sdVars, dcVars, sbVars, fbVars, pkVars, gs_client, gs_pc, gs_connOpen,
                    gs_ctxDone, gs_pinger, gs_sent, gs_received, gs_retval >>

\* stream.Recv() returns io.EOF: return nil; the deferred conn.Close() runs
GSRecvEOF ==
    /\ gs_pc = "streaming"
    /\ gs_pc' = "done"
    /\ gs_connOpen' = FALSE
    /\ gs_retval' = "nil"
    /\ gs_printed' = IF gs_client = "raw"
                       THEN Append(gs_printed, StatusLine("Stream ended"))
                       ELSE gs_printed
    /\ UNCHANGED << obVars, sdVars, dcVars, sbVars, fbVars, pkVars, gs_client, gs_ctxDone, gs_pinger,
                    gs_sent, gs_received, gs_pongs >>

\* stream.Recv() returns another error (a status of the server, or the
\* cancellation of ctx): return the error; the deferred conn.Close() runs
GSRecvError ==
    /\ gs_pc = "streaming"
    /\ gs_pc' = "done"
    /\ gs_connOpen' = FALSE
    /\ gs_retval' = "error"
    /\ UNCHANGED << obVars, sdVars, dcVars, sbVars, fbVars, pkVars, gs_client, gs_ctxDone, gs_pinger,
                    gs_sent, gs_received, gs_pongs, gs_printed >>

\* main's signal goroutine (streamData only): SIGINT or SIGTERM arrives while
\* streamData runs, "Shutting down..." is logged and cancel() is called
GSSignal ==
    /\ gs_client = "raw"
    /\ gs_pc # "done"
    /\ ~gs_ctxDone
    /\ gs_ctxDone' = TRUE
    /\ gs_printed' = Append(gs_printed, StatusLine("Shutting down"))
    /\ UNCHANGED << obVars, sdVars, dcVars, sbVars, fbVars, pkVars, gs_client, gs_pc, gs_connOpen,
                    gs_pinger, gs_sent, gs_received, gs_pongs, gs_retval >>

\* what the keep-alive goroutine sends at a tick of its ticker:
\* stream.Send(&pb.SubscribeRequest{Request: &pb.SubscribeRequest_Ping{...}})
GSTickSends(sent) == Append(sent, "ping")

\* time.NewTicker(30 * time.Second): the ticker puts a tick into ticker.C, a
\* channel that buffers one tick, whatever the goroutine and the context do
GSTick ==
    /\ gs_pinger = "running"
    /\ gs_pc = "streaming"
    /\ GSPingsSent < MaxPings
    /\ gs_pinger' = "tick"
    /\ UNCHANGED << obVars, sdVars, dcVars, sbVars, fbVars, pkVars, gs_client, gs_pc, gs_connOpen,
                    gs_ctxDone, gs_sent, gs_received, gs_pongs, gs_printed,
                    gs_retval >>

\* the keep-alive goroutine takes the buffered tick (case <-ticker.C, which
\* select may choose whenever it is ready) while the function runs and sends a
\* ping; the context is not looked at again and the result of Send is dropped
GSPing ==
    /\ gs_pinger = "tick"
    /\ gs_pc = "streaming"
    /\ gs_sent' = GSTickSends(gs_sent)
    /\ gs_pinger' = "running"
    /\ UNCHANGED << obVars, sdVars, dcVars, sbVars, fbVars, pkVars, gs_client, gs_pc, gs_connOpen,
                    gs_ctxDone, gs_received, gs_pongs, gs_printed,
                    gs_retval >>

\* the keep-alive goroutine of streamData takes case <-ctx.Done(): return,
\* which select may choose whenever it is ready, a buffered tick or not;
\* the goroutine of streamWithFilter ranges over ticker.C and has no such case
GSPingerStops ==
    /\ gs_client = "raw"
    /\ gs_pinger \in {"running", "tick"}
    /\ gs_ctxDone
    /\ gs_pinger' = "stopped"
    /\ UNCHANGED << obVars, sdVars, dcVars, sbVars, fbVars, pkVars, gs_client, gs_pc, gs_connOpen,
                    gs_ctxDone, gs_sent, gs_received, gs_pongs, gs_printed,
                    gs_retval >>

NextGoStreamData ==
    \/ GSDial
    \/ GSDialFails
    \/ GSSubscribe
    \/ GSSubscribeFails
    \/ \E m \in GoDataMsgs : GSRecvData(m)
    \/ GSRecvPong
    \/ GSRecvEOF
    \/ GSRecvError
    \/ GSSignal
    \/ GSTick
    \/ GSPing
    \/ GSPingerStops

SpecGoStreamData == InitGoStreamData /\ [][NextGoStreamData]_vars

\* C15: a data message whose payload carries the zstd prefix and fails to
\* decompress ends the session: it is the last data unit processed and the
\* function has returned an error.
C15_MalformedIsFatal ==
    \A i \in 1..Len(gs_received) :
        gs_received[i].enc = "badzstd" =>
            (i = Len(gs_received) /\ gs_pc = "done" /\ gs_retval = "error")

\* C31: in the raw-data client (streamData), once the context has been
\* cancelled no step writes to the stream any more: the keep-alive goroutine
\* sends no further ping, a tick of its ticker being pending or not.
C31_NoPingAfterCancel ==
    [][(gs_client = "raw" /\ gs_ctxDone) => (gs_sent' = gs_sent)]_vars

\* one StreamData client is run: a JavaScript one or a Go one
InitStreamDataClients == InitStreamData \/ InitGoStreamData

NextStreamDataClients == NextStreamData \/ NextGoStreamData

SpecStreamDataClients == InitStreamDataClients /\ [][NextStreamDataClients]_vars

\* the messages written to the stream by the client that runs
WrittenToStream == IF sd_client # "none" THEN sd_written ELSE gs_sent

\* a 30-second keep-alive tick is taken: the setInterval callback runs, or the
\* keep-alive goroutine receives from ticker.C
KeepAliveTick == SDPing \/ GSPing

\* C21: the subscribe request is written to the stream exactly once and before
\* any ping: it is the first message written, and every later message is a
\* ping. Nothing but a keep-alive tick writes after the subscribe request, and
\* each tick writes exactly one ping.
C21_SubscribeOnceThenPings ==
    /\ [](/\ \A i \in 1..Len(WrittenToStream) :
                 WrittenToStream[i] = (IF i = 1 THEN "subscribe" ELSE "ping")
          /\ (sd_pc \in {"streaming", "ended", "errored"} \/ gs_pc = "streaming") =>
                 Len(WrittenToStream) >= 1)
    /\ [][KeepAliveTick => Len(WrittenToStream') = Len(WrittenToStream) + 1]_vars
    /\ [][(WrittenToStream # << >> /\ WrittenToStream' # WrittenToStream) =>
              KeepAliveTick]_vars

C21_Witness ==
    /\ sd_client = "filter" /\ sd_pc = "streaming"
    /\ sd_written = << "subscribe", "ping", "ping" >>
    /\ Len(sd_received) = 2

-----------------------------------------------------------------------------
(* decompress: index.js and filter_example.js (JavaScript),                *)
(* orderbook_stream_example.go and filter_example.go (Go).                 *)
(*                                                                         *)
(* A payload is a sequence of bytes. The zstd library is outside the       *)
(* repository: what it makes of a payload (dc_lib) is an input, the same   *)
(* for both languages: a failure, or the decompressed bytes.               *)

\* var zstdMagic = []byte{0x28, 0xB5, 0x2F, 0xFD}
zstdMagic == << 40, 181, 47, 253 >>

\* the bytes payloads are made of: the four magic bytes, an ASCII letter (0x61)
\* and a UTF-8 lead byte (0xC2; 0xC2 0xB5 encodes U+00B5)
PayloadBytes == { 40, 181, 47, 253, 97, 194 }

RECURSIVE SeqsUpTo(_, _)
SeqsUpTo(S, n) ==
    IF n = 0 THEN { << >> }
    ELSE LET shorter == SeqsUpTo(S, n - 1)
         IN shorter \cup { Append(q, x) : q \in shorter, x \in S }

Payloads == SeqsUpTo(PayloadBytes, MaxPayloadLen)

\* what the zstd library can make of a payload
ZstdOutcomes ==
    { [ ok |-> FALSE, out |-> << >> ] } \cup
    { [ ok |-> TRUE, out |-> o ] : o \in { << >>, << 97 >>, << 194, 181 >>, << 253 >> } }

\* Buffer.toString('utf8'): the code points of a sequence of bytes, every byte
\* that is not part of a well-formed sequence becoming U+FFFD. Sequences of one
\* and two bytes are decoded; PayloadBytes holds no lead byte of a longer one.
RECURSIVE Utf8ToString(_)
Utf8ToString(b) ==
    IF b = << >> THEN << >>
    ELSE IF b[1] < 128 THEN << b[1] >> \o Utf8ToString(Tail(b))
    ELSE IF b[1] \in 194..223 /\ Len(b) >= 2 /\ b[2] \in 128..191
         THEN << (b[1] - 192) * 64 + (b[2] - 128) >> \o Utf8ToString(Tail(Tail(b)))
    ELSE << 65533 >> \o Utf8ToString(Tail(b))

\* data[0] === 0x28 && data[1] === 0xB5 && data[2] === 0x2F && data[3] === 0xFD,
\* evaluated on data of at least 4 bytes
HasZstdMagic(data) ==
    /\ data[1] = zstdMagic[1] /\ data[2] = zstdMagic[2]
    /\ data[3] = zstdMagic[3] /\ data[4] = zstdMagic[4]

\* a result: its type ("Buffer": the bytes themselves, "string": JavaScript text
\* as code points, "gostring": a Go string, which holds bytes, "error": a
\* rejection / a non-nil error), its value, and whether the zstd library was called
Result(type, val, called) == [ type |-> type, val |-> val, zstd |-> called ]

\* JavaScript: async function decompress(data), data a Buffer
JSDecompress(data, lib) ==
    IF Len(data) < 4 THEN Result("Buffer", data, FALSE)
    ELSE IF HasZstdMagic(data)
         THEN IF lib.ok THEN Result("string", Utf8ToString(lib.out), TRUE)
                        ELSE Result("error", << >>, TRUE)
    ELSE Result("string", Utf8ToString(data), FALSE)

\* Go: func decompress(data []byte) (string, error)
GoDecompress(data, lib) ==
    IF Len(data) < 4 THEN Result("gostring", data, FALSE)
    ELSE IF HasZstdMagic(data)
         THEN IF lib.ok THEN Result("gostring", lib.out, TRUE)
                        ELSE Result("error", << >>, TRUE)
    ELSE Result("gostring", data, FALSE)

NotRun == Result("pending", << >>, FALSE)

InitDecompress ==
    /\ IdleOrderbook
    /\ IdleStreamData
    /\ IdleGoStreamData
    /\ IdleBackfill
    /\ dc_payload \in Payloads
    /\ dc_lib \in ZstdOutcomes
    /\ dc_js = NotRun
    /\ dc_go = NotRun

\* the JavaScript decompress is applied to the payload
DCRunJS ==
    /\ dc_js = NotRun
    /\ dc_js' = JSDecompress(dc_payload, dc_lib)
    /\ UNCHANGED << obVars, sdVars, gsVars, sbVars, fbVars, pkVars, dc_payload, dc_lib, dc_go >>

\* the Go decompress is applied to the payload
DCRunGo ==
    /\ dc_go = NotRun
    /\ dc_go' = GoDecompress(dc_payload, dc_lib)
    /\ UNCHANGED << obVars, sdVars, gsVars, sbVars, fbVars, pkVars, dc_payload, dc_lib, dc_js >>

NextDecompress ==
    \/ DCRunJS
    \/ DCRunGo

\* the payload begins with 0x28 0xB5 0x2F 0xFD
BeginsWithMagic(p) == Len(p) >= 4 /\ SubSeq(p, 1, 4) = << 40, 181, 47, 253 >>

\* a result is the text t: a JavaScript string of these code points, or a Go
\* string whose bytes read as these code points
IsText(r, t) ==
    \/ r.type = "string" /\ r.val = t
    \/ r.type = "gostring" /\ Utf8ToString(r.val) = t

\* C9: a payload of at least 4 bytes beginning with the magic prefix yields the
\* text of its zstd decompression; any other payload, shorter ones included,
\* yields its own bytes as text without the decompressor being called; and the
\* JavaScript and Go results agree.
C9_DecompressContract ==
    (dc_js # NotRun /\ dc_go # NotRun) =>
        /\ (BeginsWithMagic(dc_payload) /\ dc_lib.ok) =>
              /\ IsText(dc_js, Utf8ToString(dc_lib.out))
              /\ IsText(dc_go, Utf8ToString(dc_lib.out))
        /\ ~BeginsWithMagic(dc_payload) =>
              /\ ~dc_js.zstd /\ ~dc_go.zstd
              /\ IsText(dc_js, Utf8ToString(dc_payload))
              /\ IsText(dc_go, Utf8ToString(dc_payload))
        /\ (dc_js.type = "error") <=> (dc_go.type = "error")

SpecDecompress == InitDecompress /\ [][NextDecompress]_vars

-----------------------------------------------------------------------------
(* streamBlocks: s3_blocks_backfill.js and s3_blocks_backfill.go.          *)
(*                                                                         *)
(* The object is read line by line. A line is blank (empty or white space  *)
(* only), a JSON object, JSON text that is not an object (a number, a      *)
(* string, an array: JSON.parse takes it, json.Unmarshal into a            *)
(* map[string]interface{} does not), or malformed.                         *)

\* the kinds of line
LineKinds == { "object", "array", "blank", "malformed" }

\* the lines of an object
MaxLines == 4

\* the values of blockRange.startBlock
StartBlocks == { 0, 10 }

\* js: !line.trim(); go: strings.TrimSpace(line) == ""
SBIsBlank(kind) == kind = "blank"
\* js: JSON.parse(line) returns
JSParses(kind) == kind \in {"object", "array"}
\* go: json.Unmarshal([]byte(line), &data) == nil, data a map[string]interface{}
GoParses(kind) == kind = "object"
\* js: lineNumber++ after the try / catch
JSCountLine(n) == n + 1
\* a variant of GoSkipMalformed that forgets to count the line
GoSkipMalformed_NoCount(n) == n
\* go: lineNumber++; continue in the branch of a failed json.Unmarshal
GoSkipMalformed(n) == n + 1
\* go: lineNumber++ after the send on the channel
GoCountLine(n) == n + 1

\* a yielded record; line is the zero-based index of its line in the object
Block(number, line, kind) == [ blockNumber |-> number, line |-> line, data |-> kind ]

InitStreamBlocks ==
    /\ IdleOrderbook
    /\ IdleStreamData
    /\ IdleGoStreamData
    /\ IdleDecompress
    /\ IdleFindBlockFile
    /\ IdleParseBlockRange
    /\ sb_lang \in {"js", "go"}
    /\ sb_pc = "get"
    /\ sb_start \in StartBlocks
    /\ sb_file \in SeqsUpTo(LineKinds, MaxLines)
    /\ sb_pos = 0
    /\ sb_lineNumber = 0
    /\ sb_yielded = << >>

\* GetObject succeeds: the line reader is set up and lineNumber is 0
SBGetObject ==
    /\ sb_pc = "get"
    /\ sb_pc' = "reading"
    /\ sb_lineNumber' = 0
    /\ UNCHANGED << obVars, sdVars, gsVars, dcVars, fbVars, pkVars, sb_lang, sb_start,
                    sb_file, sb_pos, sb_yielded >>

\* GetObject fails: the JavaScript generator throws, the Go goroutine prints the
\* error and closes the channel; nothing is yielded
SBGetObjectFails ==
    /\ sb_pc = "get"
    /\ sb_pc' = "failed"
    /\ UNCHANGED << obVars, sdVars, gsVars, dcVars, fbVars, pkVars, sb_lang, sb_start,
                    sb_file, sb_pos, sb_lineNumber, sb_yielded >>

\* the body of the loop for one line in language l: the records it yields and
\* the lineNumber it leaves; number is lineNumber and line the zero-based index
\* of the line in the object
SBLoopBody(l, kind, start, number, line) ==
    IF SBIsBlank(kind)
      THEN [ yields |-> << >>, lineNumber |-> number ]
    ELSE IF l = "js"
      THEN [ yields |-> IF JSParses(kind)
                          THEN << Block(start + number, line, kind) >> ELSE << >>,
             lineNumber |-> JSCountLine(number) ]
    ELSE IF GoParses(kind)
      THEN [ yields |-> << Block(start + number, line, kind) >>,
             lineNumber |-> GoCountLine(number) ]
    ELSE [ yields |-> << >>, lineNumber |-> GoSkipMalformed(number) ]

\* one round of "for await (const line of rl)" / "for scanner.Scan()"
SBLine ==
    /\ sb_pc = "reading"
    /\ sb_pos < Len(sb_file)
    /\ sb_pos' = sb_pos + 1
    /\ LET round == SBLoopBody(sb_lang, sb_file[sb_pos + 1], sb_start,
                               sb_lineNumber, sb_pos)
       IN /\ sb_yielded' = sb_yielded \o round.yields
          /\ sb_lineNumber' = round.lineNumber
    /\ UNCHANGED << obVars, sdVars, gsVars, dcVars, fbVars, pkVars, sb_lang, sb_pc,
                    sb_start, sb_file >>

\* the line reader is at the end of the object: the generator returns / the
\* channel is closed
SBEnd ==
    /\ sb_pc = "reading"
    /\ sb_pos = Len(sb_file)
    /\ sb_pc' = "done"
    /\ UNCHANGED << obVars, sdVars, gsVars, dcVars, fbVars, pkVars, sb_lang, sb_start,
                    sb_file, sb_pos, sb_lineNumber, sb_yielded >>

NextStreamBlocks ==
    \/ SBGetObject
    \/ SBGetObjectFails
    \/ SBLine
    \/ SBEnd

SpecStreamBlocks == InitStreamBlocks /\ [][NextStreamBlocks]_vars

\* the lines before the line of zero-based index n that are not blank
NonBlankBefore(file, n) == Cardinality({ j \in 1..n : file[j] # "blank" })

\* C18 as stated: every record yielded has blockNumber = startBlock + the
\* zero-based index of its line in the file, whatever the file holds.
C18_NumberIsLineIndex ==
    \A i \in 1..Len(sb_yielded) :
        sb_yielded[i].blockNumber = sb_start + sb_yielded[i].line

\* C18, amended: every record yielded has blockNumber = startBlock + the number
\* of non-blank lines before its line: a malformed line takes a number, a blank
\* line takes none.
C18_NumberIsNonBlankIndex ==
    \A i \in 1..Len(sb_yielded) :
        sb_yielded[i].blockNumber =
            sb_start + NonBlankBefore(sb_file, sb_yielded[i].line)

\* a record that follows a malformed line and a blank line
C18_Witness ==
    /\ sb_pc = "done"
    /\ sb_file = << "malformed", "blank", "object" >>
    /\ Len(sb_yielded) = 1
    /\ sb_yielded[1].line = 2
    /\ sb_yielded[1].blockNumber = sb_start + 1

\* streamBlocks of language l on a whole object, from line index pos with
\* lineNumber number: the records yielded, in order
RECURSIVE StreamBlocks(_, _, _, _, _)
StreamBlocks(l, file, start, pos, number) ==
    IF pos >= Len(file) THEN << >>
    ELSE LET round == SBLoopBody(l, file[pos + 1], start, number, pos)
         IN round.yields \o StreamBlocks(l, file, start, pos + 1, round.lineNumber)

\* the other implementation
OtherLang(l) == IF l = "js" THEN "go" ELSE "js"

\* C25: a non-blank line that is not valid JSON is not yielded and takes a block
\* number, a blank line takes none: the numbers yielded are at least startBlock,
\* strictly increasing, and each is startBlock plus the number of non-blank
\* lines before its line; and the JavaScript and the Go version yield the same
\* records for the same object.
C25_SameRecordsInBothLanguages ==
    sb_pc = "done" =>
        /\ \A i \in 1..Len(sb_yielded) :
              /\ sb_yielded[i].data \notin {"malformed", "blank"}
              /\ sb_yielded[i].blockNumber >= sb_start
              /\ sb_yielded[i].blockNumber =
                     sb_start + NonBlankBefore(sb_file, sb_yielded[i].line)
              /\ i > 1 => sb_yielded[i - 1].blockNumber < sb_yielded[i].blockNumber
        /\ sb_yielded = StreamBlocks(OtherLang(sb_lang), sb_file, sb_start, 0, 0)

-----------------------------------------------------------------------------
(* findBlockFile and listS3: s3_blocks_backfill.js and                     *)
(* s3_blocks_backfill.go.                                                  *)
(*                                                                         *)
(* The bucket holds replica_cmds/{checkpoint}/{date}/{start}-{end}.        *)
(* Checkpoints and dates are numbered in the order of their names; a file  *)
(* name "start-end" is the pair << start, end >>, and file names are       *)
(* ordered as the strings they are. ListObjectsV2 answers                  *)
(* one call with the first keys under the prefix, in the order of their    *)
(* names, up to its page size (1000 keys unless MaxKeys is set, which the  *)
(* code does not), and says in IsTruncated / NextContinuationToken that    *)
(* more are to be had by a further call.                                   *)

\* the keys ListObjectsV2 returns in one page (scaled down from 1000)
PageSize == 2
\* the checkpoints of the bucket, the dates of a checkpoint
MaxCheckpoints == 3
MaxDates == 3

\* the file names of a date: "8-9", "9-10", "10-11"
Ranges == { << 8, 9 >>, << 9, 10 >>, << 10, 11 >> }
\* the values of targetBlock
Targets == 7..11

\* a checkpoint that is not the latest: one date holding every file
OlderCheckpoint == << Ranges >>
\* the buckets: no checkpoint at all, or some checkpoints, the latest with any
\* dates and files
Stores ==
    { << >> } \cup
    { [ c \in 1..n |-> IF c < n THEN OlderCheckpoint ELSE dates ] :
        n \in 1..MaxCheckpoints, dates \in SeqsUpTo(SUBSET Ranges, MaxDates) }

\* the decimal digits of a number below 100
Digits(n) == IF n < 10 THEN << n >> ELSE << n \div 10, n % 10 >>

\* the characters of the file name "start-end": a digit is its value, and "-",
\* which sorts before every digit, is -1
FileName(file) == Digits(file[1]) \o << -1 >> \o Digits(file[2])

\* a < b for strings, as items.sort() / sort.Strings compare: by the first
\* character that differs, a proper prefix first
StringBefore(a, b) ==
    \E k \in 1..(Len(a) + 1) :
        /\ k <= Len(b)
        /\ \A j \in 1..(k - 1) : a[j] = b[j]
        /\ k = Len(a) + 1 \/ a[k] < b[k]

\* the order of two file names
NameBefore(a, b) == StringBefore(FileName(a), FileName(b))

\* the names of a set of files, in order
RECURSIVE SortedNames(_)
SortedNames(S) ==
    IF S = {} THEN << >>
    ELSE LET first == CHOOSE a \in S : \A b \in S \ {a} : NameBefore(a, b)
         IN << first >> \o SortedNames(S \ {first})

\* the response of one ListObjectsV2 call to a prefix whose keys are names: the
\* first page
S3Response(names) ==
    SubSeq(names, 1, IF Len(names) < PageSize THEN Len(names) ELSE PageSize)

\* listS3(prefix): the names of the one response, sorted (they arrive sorted);
\* a failed call is [] in JavaScript and (nil, err) in Go
ListS3(names, ok) ==
    [ items |-> IF ok THEN S3Response(names) ELSE << >>, err |-> ~ok ]

\* the names under the three kinds of prefix
CheckpointNames == [ c \in 1..Len(fb_store) |-> c ]
DateNames(c) == [ d \in 1..Len(fb_store[c]) |-> d ]
FileNames(c, d) == SortedNames(fb_store[c][d])

\* parseBlockRange / ParseBlockRange of the key of file "start-end" of a date of
\* a checkpoint: the two numbers of the name, read in base 10
BlockRange(c, d, file) ==
    [ found |-> "range", checkpoint |-> c, date |-> d,
      startBlock |-> file[1], endBlock |-> file[2] ]
\* null / nil, and no value yet
NoBlockRange(tag) ==
    [ found |-> tag, checkpoint |-> 0, date |-> 0, startBlock |-> 0, endBlock |-> 0 ]

\* a variant of FBMatches with exclusive bounds
FBMatches_Exclusive(br, target) == br.startBlock < target /\ target < br.endBlock
\* br && br.startBlock <= targetBlock && targetBlock <= br.endBlock
FBMatches(br, target) == br.startBlock <= target /\ target <= br.endBlock

\* for (const file of files): the first file of the listing that matches, or null
FBFirstMatch(c, d, files, target) ==
    LET hits == { k \in 1..Len(files) : FBMatches(BlockRange(c, d, files[k]), target) }
    IN IF hits = {} THEN NoBlockRange("null")
       ELSE BlockRange(c, d, files[CHOOSE k \in hits : \A j \in hits : k <= j])

InitFindBlockFile ==
    /\ IdleOrderbook
    /\ IdleStreamData
    /\ IdleGoStreamData
    /\ IdleDecompress
    /\ IdleStreamBlocks
    /\ IdleParseBlockRange
    /\ fb_lang \in {"js", "go"}
    /\ fb_pc = "checkpoints"
    /\ fb_store \in Stores
    /\ fb_target \in Targets
    /\ fb_checkpoint = 0
    /\ fb_dates = << >>
    /\ fb_di = 0
    /\ fb_result = NoBlockRange("pending")
    /\ fb_err = "none"
    /\ fb_failed = {}

\* return null (js) / return nil, err or nil, nil (go)
FBReturnNull(failed) ==
    /\ fb_pc' = "done"
    /\ fb_result' = NoBlockRange("null")
    /\ fb_err' = IF fb_lang = "go" THEN (IF failed THEN "error" ELSE "nil") ELSE fb_err

\* checkpoints = listS3("replica_cmds/"): nothing listed returns null (go: also
\* the error); else checkpoint is the last one listed
FBListCheckpoints(ok) ==
    /\ fb_pc = "checkpoints"
    /\ fb_failed' = IF ok THEN fb_failed ELSE fb_failed \cup { << "checkpoints", 0 >> }
    /\ LET checkpoints == ListS3(CheckpointNames, ok).items IN
         IF Len(checkpoints) = 0
           THEN /\ FBReturnNull(~ok)
                /\ UNCHANGED fb_checkpoint
           ELSE /\ fb_checkpoint' = checkpoints[Len(checkpoints)]
                /\ fb_pc' = "dates"
                /\ UNCHANGED << fb_result, fb_err >>
    /\ UNCHANGED << obVars, sdVars, gsVars, dcVars, sbVars, pkVars, fb_lang, fb_store,
                    fb_target, fb_dates, fb_di >>

\* dates = listS3("replica_cmds/{checkpoint}/"): a failure is no dates in
\* JavaScript and return nil, err in Go
FBListDates(ok) ==
    /\ fb_pc = "dates"
    /\ fb_failed' = IF ok THEN fb_failed ELSE fb_failed \cup { << "dates", 0 >> }
    /\ IF ~ok /\ fb_lang = "go"
         THEN /\ FBReturnNull(TRUE)
              /\ UNCHANGED << fb_dates, fb_di >>
         ELSE /\ fb_dates' = ListS3(DateNames(fb_checkpoint), ok).items
              /\ fb_di' = 1
              /\ fb_pc' = "files"
              /\ UNCHANGED << fb_result, fb_err >>
    /\ UNCHANGED << obVars, sdVars, gsVars, dcVars, sbVars, pkVars, fb_lang, fb_store,
                    fb_target, fb_checkpoint >>

\* one round of "for (const date of dates)": the files of the date are listed
\* (a failure is no files / continue) and searched in order; a match is returned
FBListFiles(ok) ==
    /\ fb_pc = "files"
    /\ fb_di <= Len(fb_dates)
    /\ fb_failed' = IF ok THEN fb_failed ELSE fb_failed \cup { << "files", fb_dates[fb_di] >> }
    /\ LET date == fb_dates[fb_di]
           files == ListS3(FileNames(fb_checkpoint, date), ok).items
           br == FBFirstMatch(fb_checkpoint, date, files, fb_target)
       IN IF br.found = "range"
            THEN /\ fb_result' = br
                 /\ fb_pc' = "done"
                 /\ fb_err' = IF fb_lang = "go" THEN "nil" ELSE fb_err
                 /\ UNCHANGED fb_di
            ELSE /\ fb_di' = fb_di + 1
                 /\ UNCHANGED << fb_result, fb_pc, fb_err >>
    /\ UNCHANGED << obVars, sdVars, gsVars, dcVars, sbVars, pkVars, fb_lang, fb_store,
                    fb_target, fb_checkpoint, fb_dates >>

\* the date loop is over: return null (go: nil, nil)
FBNoMatch ==
    /\ fb_pc = "files"
    /\ fb_di > Len(fb_dates)
    /\ FBReturnNull(FALSE)
    /\ UNCHANGED << obVars, sdVars, gsVars, dcVars, sbVars, pkVars, fb_lang, fb_store,
                    fb_target, fb_checkpoint, fb_dates, fb_di, fb_failed >>

NextFindBlockFile ==
    \/ \E ok \in BOOLEAN : FBListCheckpoints(ok)
    \/ \E ok \in BOOLEAN : FBListDates(ok)
    \/ \E ok \in BOOLEAN : FBListFiles(ok)
    \/ FBNoMatch

SpecFindBlockFile == InitFindBlockFile /\ [][NextFindBlockFile]_vars

\* the files of the latest checkpoint of the bucket that contain the block
FilesContaining(target) ==
    IF Len(fb_store) = 0 THEN {}
    ELSE LET latest == Len(fb_store)
         IN { BlockRange(latest, d, f) :
                d \in 1..Len(fb_store[latest]), f \in Ranges } \cap
            { br \in [ found : {"range"}, checkpoint : {latest},
                       date : 1..Len(fb_store[latest]),
                       startBlock : Targets, endBlock : Targets ] :
                /\ << br.startBlock, br.endBlock >> \in fb_store[latest][br.date]
                /\ FBMatches(br, target) }

\* C19: when no listing call failed and some file under the latest checkpoint
\* contains targetBlock, findBlockFile returns such a file, however many
\* checkpoints, dates and files the listings hold.
C19_FindsContainingFile ==
    (fb_pc = "done" /\ fb_failed = {} /\ FilesContaining(fb_target) # {}) =>
        fb_result \in FilesContaining(fb_target)

\* the file returned comes before file f of date d in ascending (date, file
\* name) order, or is that file
ReturnedNotAfter(d, f) ==
    \/ fb_result.date < d
    \/ /\ fb_result.date = d
       /\ ~NameBefore(f, << fb_result.startBlock, fb_result.endBlock >>)

\* C24: a range returned by findBlockFile contains targetBlock, both bounds
\* included; it is a file of the greatest checkpoint of the bucket; and, the
\* listings having succeeded, no file of that checkpoint that contains
\* targetBlock comes before it in ascending (date, file name) order.
C24_FirstMatchOfLatestCheckpoint ==
    fb_result.found = "range" =>
        /\ fb_result.startBlock <= fb_target /\ fb_target <= fb_result.endBlock
        /\ fb_result.checkpoint = Len(fb_store)
        /\ fb_result.date \in 1..Len(fb_store[fb_result.checkpoint])
        /\ << fb_result.startBlock, fb_result.endBlock >>
               \in fb_store[fb_result.checkpoint][fb_result.date]
        /\ fb_failed = {} =>
               \A d \in 1..Len(fb_store[fb_result.checkpoint]) :
                   \A f \in fb_store[fb_result.checkpoint][d] :
                       (f[1] <= fb_target /\ fb_target <= f[2]) => ReturnedNotAfter(d, f)

\* some file that a successful listing of a date of dates returned contains the
\* block
ListedFileContains(target) ==
    /\ fb_checkpoint # 0
    /\ \E i \in 1..Len(fb_dates) :
          /\ << "files", fb_dates[i] >> \notin fb_failed
          /\ LET files == ListS3(FileNames(fb_checkpoint, fb_dates[i]), TRUE).items
             IN \E k \in 1..Len(files) :
                    files[k][1] <= target /\ target <= files[k][2]

\* C26 as stated: the JavaScript findBlockFile throws nothing and returns null
\* whenever a listing call of the run has failed and whenever no file of the
\* checkpoint searched contains the block.
C26_NullOnAnyFailure ==
    (fb_lang = "js" /\ fb_pc = "done") =>
        /\ fb_err = "none"
        /\ fb_failed # {} => fb_result.found = "null"
        /\ (fb_checkpoint # 0 /\ \A d \in 1..Len(fb_store[fb_checkpoint]) :
               \A f \in fb_store[fb_checkpoint][d] : ~(f[1] <= fb_target /\ fb_target <= f[2]))
              => fb_result.found = "null"

\* C26, amended: the JavaScript findBlockFile throws nothing; it returns null
\* when the listing of the checkpoints or of the dates has failed, and otherwise
\* returns null exactly when no file returned by a successful listing of a date
\* contains the block: a failed listing of a date skips that date only.
C26_NullWhenNothingListedContains ==
    (fb_lang = "js" /\ fb_pc = "done") =>
        /\ fb_err = "none"
        /\ fb_result.found \in {"null", "range"}
        /\ ({ << "checkpoints", 0 >>, << "dates", 0 >> } \cap fb_failed # {}) =>
               fb_result.found = "null"
        /\ fb_result.found = "null" <=> ~ListedFileContains(fb_target)

\* the files of date 1 could not be listed and the block is found in date 2
C26_Witness ==
    /\ fb_lang = "js" /\ fb_pc = "done"
    /\ fb_failed = { << "files", 1 >> }
    /\ fb_result.found = "range" /\ fb_result.date = 2
    /\ \E f \in fb_store[fb_checkpoint][1] : f[1] <= fb_target /\ fb_target <= f[2]

-----------------------------------------------------------------------------
(* parseBlockRange (s3_blocks_backfill.js) and ParseBlockRange             *)
(* (s3_blocks_backfill.go).                                                *)
(*                                                                         *)
(* A key is a string: the sequence of its characters. The prefix           *)
(* "replica_cmds" is shortened to "r"; the characters of a key are "/",    *)
(* "-", the digits "1" and "2", and the letters "r" and "x". The numbers   *)
(* of such keys are far below 2^53 and 2^63, where parseInt and            *)
(* strconv.ParseInt stop being exact.                                      *)

\* the length of the last segment of a key
MaxNameLen == 5
\* the "/"-separated segments of a key
MaxSegments == 5

BLOCKS_PREFIX == << "r" >>

DigitChars == { "1", "2" }

\* the last segments: any string of "-", digits and a letter
Names == SeqsUpTo({ "-", "1", "2", "x" }, MaxNameLen)

\* segments joined by "/"
RECURSIVE JoinKey(_)
JoinKey(segs) ==
    IF Len(segs) = 1 THEN segs[1]
    ELSE segs[1] \o << "/" >> \o JoinKey(Tail(segs))

\* the keys: a first segment that is the prefix or not, then segments "1", then
\* a last segment
Keys ==
    { JoinKey(<< first >> \o [ j \in 1..mids |-> << "1" >> ] \o << name >>) :
        first \in { BLOCKS_PREFIX, << "x" >> }, mids \in 0..(MaxSegments - 2),
        name \in Names }

\* key.split(sep) / strings.Split(key, sep)
RECURSIVE Split(_, _)
Split(str, sep) ==
    LET at == { k \in 1..Len(str) : str[k] = sep }
    IN IF at = {} THEN << str >>
       ELSE LET k == CHOOSE k \in at : \A j \in at : k <= j
            IN << SubSeq(str, 1, k - 1) >> \o Split(SubSeq(str, k + 1, Len(str)), sep)

\* the number written by a string of digits
RECURSIVE DecimalValue(_)
DecimalValue(str) ==
    IF str = << >> THEN 0
    ELSE 10 * DecimalValue(SubSeq(str, 1, Len(str) - 1))
           + (IF str[Len(str)] = "1" THEN 1 ELSE 2)

\* a number of JavaScript or Go; NaN is a number of JavaScript only
Num(v) == [ nan |-> FALSE, val |-> v ]
NaN == [ nan |-> TRUE, val |-> 0 ]

\* parseInt(str, 10) of a string without white space or sign: the number of its
\* longest prefix of digits, NaN when that prefix is empty
JSParseInt(str) ==
    LET n == Cardinality({ k \in 1..Len(str) : \A j \in 1..k : str[j] \in DigitChars })
    IN IF n = 0 THEN NaN ELSE Num(DecimalValue(SubSeq(str, 1, n)))

\* strconv.ParseInt(str, 10, 64) of a string without sign: an error unless the
\* string is one or more digits
GoParseIntFails(str) == str = << >> \/ \E k \in 1..Len(str) : str[k] \notin DigitChars
GoParseInt(str) == Num(DecimalValue(str))

\* the value returned: null / nil, or the fields of the range
PKNull ==
    [ status |-> "null", checkpoint |-> << >>, date |-> << >>,
      startBlock |-> Num(0), endBlock |-> Num(0), s3Key |-> << >> ]
PKRange(parts, start, end, key) ==
    [ status |-> "range", checkpoint |-> parts[2], date |-> parts[3],
      startBlock |-> start, endBlock |-> end, s3Key |-> key ]
PKNotRun ==
    [ status |-> "pending", checkpoint |-> << >>, date |-> << >>,
      startBlock |-> Num(0), endBlock |-> Num(0), s3Key |-> << >> ]

\* js: function parseBlockRange(key)
JSParseBlockRange(key) ==
    LET parts == Split(key, "/") IN
    IF Len(parts) # 4 \/ parts[1] # BLOCKS_PREFIX THEN PKNull
    ELSE LET pieces == Split(parts[4], "-")
             \* const [start, end] = ...: end is undefined when there is one piece
             startMissing == pieces[1] = << >>
             endMissing == Len(pieces) < 2 \/ pieces[2] = << >>
         IN IF startMissing \/ endMissing THEN PKNull
            ELSE PKRange(parts, JSParseInt(pieces[1]), JSParseInt(pieces[2]), key)

\* go: func ParseBlockRange(key string) *BlockRange
GoParseBlockRange(key) ==
    LET parts == Split(key, "/") IN
    IF Len(parts) # 4 \/ parts[1] # BLOCKS_PREFIX THEN PKNull
    ELSE LET rangeParts == Split(parts[4], "-") IN
         IF Len(rangeParts) # 2 THEN PKNull
         ELSE IF GoParseIntFails(rangeParts[1]) \/ GoParseIntFails(rangeParts[2])
           THEN PKNull
         ELSE PKRange(parts, GoParseInt(rangeParts[1]), GoParseInt(rangeParts[2]), key)

InitParseBlockRange ==
    /\ IdleOrderbook
    /\ IdleStreamData
    /\ IdleGoStreamData
    /\ IdleDecompress
    /\ IdleStreamBlocks
    /\ IdleFindBlockFile
    /\ pk_key \in Keys
    /\ pk_js = PKNotRun
    /\ pk_go = PKNotRun

\* the JavaScript parseBlockRange is applied to the key
PKRunJS ==
    /\ pk_js = PKNotRun
    /\ pk_js' = JSParseBlockRange(pk_key)
    /\ UNCHANGED << obVars, sdVars, gsVars, dcVars, sbVars, fbVars, pk_key, pk_go >>

\* the Go ParseBlockRange is applied to the key
PKRunGo ==
    /\ pk_go = PKNotRun
    /\ pk_go' = GoParseBlockRange(pk_key)
    /\ UNCHANGED << obVars, sdVars, gsVars, dcVars, sbVars, fbVars, pk_key, pk_js >>

NextParseBlockRange ==
    \/ PKRunJS
    \/ PKRunGo

SpecParseBlockRange == InitParseBlockRange /\ [][NextParseBlockRange]_vars

\* the last segment of the key is <integer>-<integer>: two strings of one or
\* more digits with one "-" between them
IntegerDashInteger(name) ==
    \E k \in 1..Len(name) :
        /\ name[k] = "-"
        /\ k > 1 /\ k < Len(name)
        /\ \A j \in 1..Len(name) : j # k => name[j] \in DigitChars

\* the key has exactly four "/"-separated segments, the first being the prefix
FourSegmentsUnderPrefix(key) ==
    /\ Cardinality({ k \in 1..Len(key) : key[k] = "/" }) = 3
    /\ Len(key) > Len(BLOCKS_PREFIX)
    /\ SubSeq(key, 1, Len(BLOCKS_PREFIX) + 1) = BLOCKS_PREFIX \o << "/" >>

\* the last segment of a key: what follows its last "/"
LastSegment(key) ==
    LET at == { k \in 1..Len(key) : key[k] = "/" }
    IN IF at = {} THEN key
       ELSE SubSeq(key, (CHOOSE k \in at : \A j \in at : j <= k) + 1, Len(key))

\* C27: parseBlockRange and ParseBlockRange agree on every key: both reject it
\* or both return the same checkpoint, date, startBlock and endBlock; and both
\* reject a key that has not exactly four segments under "replica_cmds" or
\* whose last segment is not <integer>-<integer>.
C27_ParseBlockRangeEquivalent ==
    (pk_js # PKNotRun /\ pk_go # PKNotRun) =>
        /\ pk_js.status = pk_go.status
        /\ pk_js.checkpoint = pk_go.checkpoint /\ pk_js.date = pk_go.date
        /\ pk_js.startBlock = pk_go.startBlock /\ pk_js.endBlock = pk_go.endBlock
        /\ (~FourSegmentsUnderPrefix(pk_key) \/ ~IntegerDashInteger(LastSegment(pk_key)))
              => (pk_js.status = "null" /\ pk_go.status = "null")

====
